---------------------------- MODULE Spec2Model ----------------------------
(***************************************************************************)
(* A model of welcome.py: the connection / correlation / dispatch engine   *)
(* (send_action, ws_reader, main), the debounced welcome scheduler         *)
(* (handle_new_member, schedule_welcome) and the keyword trigger engine    *)
(* (handle_custom_triggers).                                               *)
(*                                                                         *)
(* The program is single-threaded cooperative (asyncio): the code between  *)
(* two awaits is one atomic action of the model.                           *)
(***************************************************************************)
EXTENDS Integers, Sequences, FiniteSets, TLC

(***************************************************************************)
(* Bounds of the model.                                                    *)
(***************************************************************************)
\* how many send_action invocations (tokens) a behaviour may make
MaxCalls == 3
\* how many event frames the transport may deliver
MaxEvents == 3
\* how many join events a behaviour may handle
MaxJoins == 2
\* how many times the super-user may send the test phrase
MaxTests == 1
\* how many entries a trigger list may hold
MaxEntries == 2
\* the last second of the clock
MaxClock == 4
\* how many switch commands a behaviour may handle
MaxSwitches == 2
\* runs of load_all, the one of line 711 included
MaxLoads == 3
\* events dequeued by main
MaxSeen == 2

(***************************************************************************)
(* State of the connection engine.                                         *)
(***************************************************************************)
VARIABLES
    sup,              \* main(): where the connect loop stands
    wsOpen,           \* the websocket of the current connection is open
    reader,           \* the ws_reader task: "none" | "running" | "ended"
    PENDING_ACTIONS,  \* echo -> future ([done, echo of the result frame])
    EVENT_QUEUE,      \* the asyncio.Queue of events, a sequence of event ids
    callPc,           \* per calling task: "idle" | "sending" | "waiting"
    callTok,          \* per calling task: the echo of its current send_action
    nextTok,          \* how many echoes _new_echo has produced so far
    \* history variables (not program state)
    outcome,          \* per echo: how its send_action invocation ended
    wireSent,         \* echoes whose request reached the transport
    resolved,         \* echoes for which a response frame resolved a future
    received,         \* event ids in the order ws_reader took their frames
    dispatched,       \* event ids in the order main() dequeued them
    mix               \* 0..3: event, then response, then event seen by the reader

connVars == <<sup, wsOpen, reader, PENDING_ACTIONS, EVENT_QUEUE, callPc, callTok,
              nextTok, outcome, wireSent, resolved, received, dispatched, mix>>

(***************************************************************************)
(* State of the welcome scheduler.                                         *)
(***************************************************************************)
VARIABLES
    newcomers,        \* 新人记录: group -> the users waiting for a greeting
    timerTasks,       \* 定时器任务: group -> the task created for it last
    task,             \* per schedule_welcome run: [pc, grp, idx]
    nTasks,           \* how many timer tasks asyncio.create_task has made
    dpc,              \* where the dispatcher stands in a welcome handler
    welcome_plain,    \* STORE.welcome_plain: the bodies, in file-name order
    welcome_packs,    \* STORE.welcome_packs: per directory, its bodies
    senders,          \* the runs that have sent a greeting message to their group
    \* history variables (not program state)
    arrived,          \* per group: distinct users whose join was handled
    inWindow,         \* per group: every join so far came within the delay
    lastMention,      \* per group: the last mention message sent, what was due, the
                      \* run that sent it and how many greetings were complete then
    nJoins,           \* join events handled so far
    nTests,           \* test phrases handled so far
    lastJoin          \* what the join handler that last left line 327 went on to do

(***************************************************************************)
(* The rest of the Store object, and a greeting as far as it reads the     *)
(* Store.                                                                  *)
(***************************************************************************)
VARIABLES
    settings,         \* STORE.settings, by the number of the load that read it
    self_id,          \* STORE.self_id
    greeting,         \* a schedule_welcome run past its delay: [pc, idx, plain, packs]
    nLoads,           \* how many times load_all has run
    \* history variables (not program state)
    used,             \* the loads whose settings or entries the greeting has used
    replyUsed,        \* the loads whose settings or entries the last reply used
    seen              \* the self_id values of the events dequeued so far

storeVars == <<settings, self_id, greeting, nLoads, used, replyUsed, seen>>
welHist == <<lastJoin>>
welOther == <<newcomers, timerTasks, task, nTasks, dpc, senders, arrived, inWindow,
              lastMention, nJoins, nTests, welHist>>
welVars == <<welOther, welcome_plain, welcome_packs, storeVars>>

(***************************************************************************)
(* State of the trigger engine.                                            *)
(***************************************************************************)
VARIABLES
    trig_singles,     \* STORE.trig_singles: [kws, body], in file-name order
    trig_groups,      \* STORE.trig_groups: [kws, parts], in directory-name order
    kwMsg,            \* the message whose keywords are resolved: [text, private]
    reply,            \* what handle_custom_triggers did with kwMsg
    clock,            \* time.time(), in seconds
    cooldownRecord,   \* 触发冷却记录: (group, user) -> time of the last stamp
    TRIG_STATE,       \* [group_enabled, dm_blocked]
    \* history variables (not program state)
    handled,          \* the message event handled last and what became of it
    acceptedAt,       \* (group, user) -> when a message last passed the cooldown
    stateFile,        \* trigger_state.json: [kind, st], kind "json" | "absent" | "bad"
    proc,             \* the process: "up" | "down"
    trigger_allow_nonlisted_groups,  \* STORE.settings: non-listed groups may be opened
    \* history variable (not program state)
    switched          \* the switch command handled last and what became of it

coolVars == <<clock, cooldownRecord, TRIG_STATE, handled, acceptedAt>>
swVars == <<stateFile, proc, switched, trigger_allow_nonlisted_groups>>
trigOther == <<kwMsg, reply, coolVars, swVars>>
trigVars == <<trig_singles, trig_groups, trigOther>>

vars == <<connVars, welVars, trigVars>>

Tokens == 1..MaxCalls
\* the tasks that call send_action: the dispatcher loop of main() and a
\* schedule_welcome timer task
Callers == {"disp", "timer"}

NoEcho == 0
\* a frame that json.loads rejects
Malformed == [echo |-> -1, status |-> "garbage"]
\* an echo that json.loads turns into a list or a dict: truthy, and not
\* usable as a key of PENDING_ACTIONS
Unhashable == 0 - 2
\* parsed frames: the fields ws_reader looks at
Frames == [echo : {NoEcho, Unhashable} \cup Tokens, status : {"", "ok"}]

\* the future created by send_action before it is resolved
NewFuture == [done |-> FALSE, echo |-> NoEcho]
NoOutcome == [kind |-> "none", echo |-> NoEcho]

(***************************************************************************)
(* send_action                                                             *)
(***************************************************************************)
\* lines 58-61: a fresh echo, a fresh future, registered under the echo;
\* the caller then awaits ws.send
Register(c) ==
    /\ callPc[c] = "idle"
    /\ nextTok < MaxCalls
    /\ nextTok' = nextTok + 1
    /\ PENDING_ACTIONS' = [t \in DOMAIN PENDING_ACTIONS \cup {nextTok + 1} |->
                              IF t = nextTok + 1 THEN NewFuture ELSE PENDING_ACTIONS[t]]
    /\ callPc' = [callPc EXCEPT ![c] = "sending"]
    /\ callTok' = [callTok EXCEPT ![c] = nextTok + 1]

\* PENDING_ACTIONS.pop(echo, None)
Pop(t) == [u \in DOMAIN PENDING_ACTIONS \ {t} |-> PENDING_ACTIONS[u]]

\* line 62 completes: the request is on the wire, the caller enters the try
\* block and awaits the future
SendOk(c) ==
    /\ UNCHANGED <<welVars, trigVars>>
    /\ callPc[c] = "sending"
    /\ wsOpen
    /\ callPc' = [callPc EXCEPT ![c] = "waiting"]
    /\ wireSent' = wireSent \cup {callTok[c]}
    /\ UNCHANGED <<sup, wsOpen, reader, PENDING_ACTIONS, EVENT_QUEUE, callTok, nextTok,
                   outcome, resolved, received, dispatched, mix>>

\* a dispatcher loop that an exception of a handler ends
AfterException_LoopEnds(c) == IF c = "disp" THEN "ended" ELSE "idle"
\* where an exception of send_action leaves its caller: in main the handler
\* is left, line 806 catches and logs the exception and the loop goes on to
\* the next EVENT_QUEUE.get(); a timer task ends, and the next one may call
AfterException(c) == "idle"
\* what line 62 leaves of the map when ws.send raises: the await is outside
\* the try/finally, so nothing is popped
AfterSendRaises(t) == PENDING_ACTIONS

\* line 62 raises (the connection is closed): the exception leaves send_action
SendFail(c) ==
    /\ UNCHANGED <<welVars, trigVars>>
    /\ callPc[c] = "sending"
    /\ ~wsOpen
    /\ PENDING_ACTIONS' = AfterSendRaises(callTok[c])
    /\ callPc' = [callPc EXCEPT ![c] = AfterException(c)]
    /\ outcome' = [outcome EXCEPT ![callTok[c]] = [kind |-> "TransportError", echo |-> NoEcho]]
    /\ UNCHANGED <<sup, wsOpen, reader, EVENT_QUEUE, callTok, nextTok,
                   wireSent, resolved, received, dispatched, mix>>

\* send_action without its finally clause
Finally_NoPop(t) == PENDING_ACTIONS

\* the finally clause of lines 65-66
Finally(t) == Pop(t)

\* lines 64-67: the future is done, wait_for returns its result, the finally
\* clause pops the echo and the response is returned
CallReturn(c) ==
    /\ UNCHANGED <<welVars, trigVars>>
    /\ callPc[c] = "waiting"
    /\ callTok[c] \in DOMAIN PENDING_ACTIONS
    /\ PENDING_ACTIONS[callTok[c]].done
    /\ outcome' = [outcome EXCEPT ![callTok[c]] =
                      [kind |-> "response", echo |-> PENDING_ACTIONS[callTok[c]].echo]]
    /\ PENDING_ACTIONS' = Finally(callTok[c])
    /\ callPc' = [callPc EXCEPT ![c] = "idle"]
    /\ UNCHANGED <<sup, wsOpen, reader, EVENT_QUEUE, callTok, nextTok,
                   wireSent, resolved, received, dispatched, mix>>

\* lines 64-66: the timeout elapses with the future not done: wait_for raises
\* TimeoutError through the finally clause
CallTimeout(c) ==
    /\ UNCHANGED <<welVars, trigVars>>
    /\ callPc[c] = "waiting"
    /\ callTok[c] \in DOMAIN PENDING_ACTIONS
    /\ ~PENDING_ACTIONS[callTok[c]].done
    /\ outcome' = [outcome EXCEPT ![callTok[c]] = [kind |-> "Timeout", echo |-> NoEcho]]
    /\ PENDING_ACTIONS' = Finally(callTok[c])
    /\ callPc' = [callPc EXCEPT ![c] = AfterException(c)]
    /\ UNCHANGED <<sup, wsOpen, reader, EVENT_QUEUE, callTok, nextTok,
                   wireSent, resolved, received, dispatched, mix>>

\* the timer task is cancelled (定时器任务[group_id].cancel(), line 335 or 777)
\* while it is inside send_action: CancelledError is raised at its await, at
\* line 62 (no cleanup) or at line 64 (through the finally clause)
CancelTimerCall ==
    /\ UNCHANGED <<welVars, trigVars>>
    /\ callPc["timer"] \in {"sending", "waiting"}
    /\ PENDING_ACTIONS' = IF callPc["timer"] = "sending"
                             THEN AfterSendRaises(callTok["timer"])
                             ELSE Finally(callTok["timer"])
    /\ outcome' = [outcome EXCEPT ![callTok["timer"]] = [kind |-> "Cancelled", echo |-> NoEcho]]
    /\ callPc' = [callPc EXCEPT !["timer"] = "idle"]
    /\ UNCHANGED <<sup, wsOpen, reader, EVENT_QUEUE, callTok, nextTok,
                   wireSent, resolved, received, dispatched, mix>>

\* a schedule_welcome task starts one of its sends (lines 355-383)
TimerCall ==
    /\ UNCHANGED <<welVars, trigVars>>
    /\ sup = "Connected"
    /\ Register("timer")
    /\ UNCHANGED <<sup, wsOpen, reader, EVENT_QUEUE,
                   outcome, wireSent, resolved, received, dispatched, mix>>

(***************************************************************************)
(* ws_reader                                                               *)
(***************************************************************************)
\* line 81: a dict with a truthy echo and a truthy status
IsResponse(f) == f # Malformed /\ f.echo # NoEcho /\ f.status # ""

\* line 82: the echo can be looked up in PENDING_ACTIONS
Hashable(f) == f.echo # Unhashable

\* a reader that resolves the oldest waiter, whatever echo the frame carries
RouteResponse_Oldest(f) ==
    LET open == {t \in DOMAIN PENDING_ACTIONS : ~PENDING_ACTIONS[t].done} IN
    IF open # {}
    THEN LET t == CHOOSE u \in open : \A v \in open : u <= v
         IN [PENDING_ACTIONS EXCEPT ![t] = [done |-> TRUE, echo |-> f.echo]]
    ELSE PENDING_ACTIONS

\* lines 82-84: the future registered under the frame's echo, if any and not
\* done, gets the frame as its result
RouteResponse(f) ==
    IF f.echo \in DOMAIN PENDING_ACTIONS /\ ~PENDING_ACTIONS[f.echo].done
    THEN [PENDING_ACTIONS EXCEPT ![f.echo] = [done |-> TRUE, echo |-> f.echo]]
    ELSE PENDING_ACTIONS

\* line 87: EVENT_QUEUE.put (the queue is unbounded: put never waits)
Put(q, e) == Append(q, e)

\* lines 75-87, one iteration of the loop for the frame f
ReaderRecv(f) ==
    /\ UNCHANGED <<welVars, trigVars>>
    /\ reader = "running"
    /\ wsOpen
    /\ \/ /\ f = Malformed
          /\ UNCHANGED <<PENDING_ACTIONS, EVENT_QUEUE, resolved, received, mix, reader>>
       \/ /\ IsResponse(f)
          /\ Hashable(f)
          \* the gateway answers requests it has received
          /\ f.echo \in wireSent
          /\ PENDING_ACTIONS' = RouteResponse(f)
          /\ resolved' = IF PENDING_ACTIONS' # PENDING_ACTIONS
                            THEN resolved \cup {f.echo} ELSE resolved
          /\ mix' = IF mix = 1 THEN 2 ELSE mix
          /\ UNCHANGED <<EVENT_QUEUE, received, reader>>
       \/ /\ IsResponse(f)
          /\ ~Hashable(f)
          \* line 82: PENDING_ACTIONS.get raises TypeError, which nothing in
          \* ws_reader catches: the task ends with the connection still open
          /\ reader' = "ended"
          /\ UNCHANGED <<PENDING_ACTIONS, EVENT_QUEUE, resolved, received, mix>>
       \/ /\ f # Malformed
          /\ ~IsResponse(f)
          /\ Len(received) < MaxEvents
          /\ EVENT_QUEUE' = Put(EVENT_QUEUE, Len(received) + 1)
          /\ received' = Append(received, Len(received) + 1)
          /\ mix' = IF mix \in {0, 2} THEN mix + 1 ELSE mix
          /\ UNCHANGED <<PENDING_ACTIONS, resolved, reader>>
    /\ UNCHANGED <<sup, wsOpen, callPc, callTok, nextTok, outcome,
                   wireSent, dispatched>>

\* line 75: the iteration over the websocket ends (or raises) once the
\* connection has closed; the task is over
ReaderEnd ==
    /\ UNCHANGED <<welVars, trigVars>>
    /\ reader = "running"
    /\ ~wsOpen
    /\ reader' = "ended"
    /\ UNCHANGED <<sup, wsOpen, PENDING_ACTIONS, EVENT_QUEUE, callPc, callTok, nextTok,
                   outcome, wireSent, resolved, received, dispatched, mix>>

(***************************************************************************)
(* main: the connect loop and the dispatcher loop                          *)
(***************************************************************************)
\* lines 735-738: websockets.connect succeeds, the reader task is created
ConnectOk ==
    /\ UNCHANGED <<welVars, trigVars>>
    /\ sup = "Connecting"
    /\ sup' = "Connected"
    /\ wsOpen' = TRUE
    /\ reader' = "running"
    /\ UNCHANGED <<PENDING_ACTIONS, EVENT_QUEUE, callPc, callTok, nextTok,
                   outcome, wireSent, resolved, received, dispatched, mix>>

\* lines 735, 810-815: websockets.connect raises; main sleeps 5 seconds
ConnectFail ==
    /\ UNCHANGED <<welVars, trigVars>>
    /\ sup = "Connecting"
    /\ sup' = "Backoff"
    /\ UNCHANGED <<wsOpen, reader, PENDING_ACTIONS, EVENT_QUEUE, callPc, callTok, nextTok,
                   outcome, wireSent, resolved, received, dispatched, mix>>

\* lines 812/815 and 733: the sleep is over, the loop connects again
BackoffElapsed ==
    /\ UNCHANGED <<welVars, trigVars>>
    /\ sup = "Backoff"
    /\ sup' = "Connecting"
    /\ UNCHANGED <<wsOpen, reader, PENDING_ACTIONS, EVENT_QUEUE, callPc, callTok, nextTok,
                   outcome, wireSent, resolved, received, dispatched, mix>>

\* the gateway closes the connection, or it breaks
TransportClose ==
    /\ UNCHANGED <<welVars, trigVars>>
    /\ sup = "Connected"
    /\ wsOpen
    /\ wsOpen' = FALSE
    /\ UNCHANGED <<sup, reader, PENDING_ACTIONS, EVENT_QUEUE, callPc, callTok, nextTok,
                   outcome, wireSent, resolved, received, dispatched, mix>>

\* a queue that hands over its newest event
Get_Newest(q) == q[Len(q)]

\* line 741: EVENT_QUEUE.get() hands over the oldest event
Get(q) == Head(q)

\* lines 740-807, from the dequeue to the handler's first await or its end:
\* the handler either ends without a send (also by an exception, caught at
\* line 806) or enters send_action.  The loop runs inside `async with`, and
\* nothing but an exception raised by line 741 itself ends it.
Dispatch ==
    /\ UNCHANGED <<welVars, trigVars>>
    /\ sup = "Connected"
    /\ callPc["disp"] = "idle"
    /\ EVENT_QUEUE # <<>>
    /\ dispatched' = Append(dispatched, Get(EVENT_QUEUE))
    /\ EVENT_QUEUE' = Tail(EVENT_QUEUE)
    /\ \/ /\ Register("disp")
       \/ /\ UNCHANGED <<PENDING_ACTIONS, callPc, callTok, nextTok>>
    /\ UNCHANGED <<sup, wsOpen, reader, outcome, wireSent, resolved, received, mix>>

ConnInit ==
    /\ sup = "Connecting"
    /\ wsOpen = FALSE
    /\ reader = "none"
    /\ PENDING_ACTIONS = <<>>
    /\ EVENT_QUEUE = <<>>
    /\ callPc = [c \in Callers |-> "idle"]
    /\ callTok = [c \in Callers |-> NoEcho]
    /\ nextTok = 0
    /\ outcome = [t \in Tokens |-> NoOutcome]
    /\ wireSent = {}
    /\ resolved = {}
    /\ received = <<>>
    /\ dispatched = <<>>
    /\ mix = 0

(***************************************************************************)
(* The welcome scheduler: handle_new_member, schedule_welcome and the      *)
(* test phrase of main.  A send_group_msg / send_forward_message awaited   *)
(* by a handler is one step with one of the results send_action can have:  *)
(* "ok" (sent and answered), "timeout" (sent, no answer in time) or "fail" *)
(* (ws.send raised, nothing sent).                                         *)
(***************************************************************************)
\* the groups of settings.welcome_groups (welcome_enabled being set)
Groups == {"g1"}
Users == {"u1", "u2"}
\* settings.super_user_id
SuperUser == "su"
\* the run of schedule_welcome that main awaits itself (line 780); the other
\* runs are the tasks made by asyncio.create_task (line 339)
InlineRun == 0
Runs == 0..MaxJoins
SendResults == {"ok", "timeout", "fail"}

NoTask == [pc |-> "none", grp |-> "", idx |-> 0]
DispIdle == [pc |-> "idle", grp |-> "", usr |-> ""]
NoJoin == [any |-> FALSE, grp |-> "", usr |-> "", listed |-> FALSE, fresh |-> FALSE,
           others |-> {}]
NoMention == [any |-> FALSE, users |-> <<>>, due |-> <<>>, inWin |-> FALSE,
              by |-> 0 - 1, after |-> 0]

\* dict.get(group_id, [])
ListOf(g) == IF g \in DOMAIN newcomers THEN newcomers[g] ELSE <<>>

SeqHas(q, x) == \E i \in 1..Len(q) : q[i] = x

\* a handler that records every join event, duplicates included
AddNewcomer_Dup(q, u) == Append(q, u)

\* lines 330-331: append unless present
AddNewcomer(q, u) == IF SeqHas(q, u) THEN q ELSE Append(q, u)

\* dict.pop(group_id, None)
Without(f, g) == [h \in DOMAIN f \ {g} |-> f[h]]
\* dict[group_id] = v
With(f, g, v) == [h \in DOMAIN f \cup {g} |-> IF h = g THEN v ELSE f[h]]

\* Task.cancel(): a task that is over is left as it is; a task suspended in
\* the delay gets CancelledError inside the try of line 346 and returns (line
\* 350); a task suspended later gets it at that await and ends with it.
\* Either way the task executes nothing more.
Cancelled(tk) ==
    IF tk.pc = "sleep" THEN [tk EXCEPT !.pc = "cancelled_asleep"]
    ELSE IF tk.pc \in {"emptylog", "greet"} THEN [tk EXCEPT !.pc = "cancelled", !.idx = 0]
    ELSE tk

\* the texts of a list of bodies that are not empty ("if body", "if b")
Texts(bodies) == SelectSeq(bodies, LAMBDA b : b # "")

\* lines 359-383: the sends of one greeting, in order.  welcome_plain and
\* welcome_packs are kept in file-name order by load_all, the order in which
\* sorted() of lines 364 and 371 walks them.
GreetingSteps ==
    <<[kind |-> "log", texts |-> <<>>]>>
    \o [i \in 1..Len(Texts(welcome_plain)) |->
            [kind |-> "plain", texts |-> <<Texts(welcome_plain)[i]>>]]
    \o [i \in 1..Len(SelectSeq(welcome_packs, LAMBDA p : Texts(p) # <<>>)) |->
            [kind |-> "forward",
             texts |-> Texts(SelectSeq(welcome_packs, LAMBDA p : Texts(p) # <<>>)[i])]]
    \o <<[kind |-> "mention", texts |-> <<>>]>>

\* line 355: the only send of a run that found its list empty
EmptySteps == <<[kind |-> "log", texts |-> <<>>]>>

StepsOf(i) == IF task[i].pc = "emptylog" THEN EmptySteps ELSE GreetingSteps

\* main, lines 751-756 and handle_new_member, lines 325-327: a join event of
\* a welcome-enabled group is taken from the queue; the handler awaits its
\* first log message
JoinBegin(g, u) ==
    /\ dpc.pc = "idle"
    /\ nJoins < MaxJoins
    /\ nJoins' = nJoins + 1
    /\ dpc' = [pc |-> "join_log1", grp |-> g, usr |-> u]
    /\ arrived' = [arrived EXCEPT ![g] = IF SeqHas(@, u) THEN @ ELSE Append(@, u)]
    /\ inWindow' = [inWindow EXCEPT ![g] =
                       /\ @
                       /\ \/ arrived[g] = <<>>
                          \/ /\ g \in DOMAIN timerTasks
                             /\ task[timerTasks[g]].pc = "sleep"]
    /\ UNCHANGED <<newcomers, timerTasks, task, nTasks, welcome_plain, welcome_packs,
                   senders, lastMention, nTests>>
    /\ UNCHANGED <<connVars, trigVars, welHist, storeVars>>

\* a handler that leaves the previous timer running
RecordAndReschedule_NoCancel(g, u) ==
    /\ newcomers' = With(newcomers, g, AddNewcomer(ListOf(g), u))
    /\ nTasks' = nTasks + 1
    /\ task' = [i \in Runs |->
                   IF i = nTasks + 1 THEN [pc |-> "sleep", grp |-> g, idx |-> 0]
                   ELSE task[i]]
    /\ timerTasks' = With(timerTasks, g, nTasks + 1)
    /\ dpc' = [dpc EXCEPT !.pc = "join_log2"]

\* what handle_new_member does once its first log message is answered, lines
\* 329-341: record the user, cancel the group's task, start and register a new
\* one; it then awaits its second log message
RecordAndReschedule(g, u) ==
    /\ newcomers' = With(newcomers, g, AddNewcomer(ListOf(g), u))
    /\ nTasks' = nTasks + 1
    /\ task' = [i \in Runs |->
                   IF i = nTasks + 1 THEN [pc |-> "sleep", grp |-> g, idx |-> 0]
                   ELSE IF g \in DOMAIN timerTasks /\ i = timerTasks[g]
                        THEN Cancelled(task[i])
                        ELSE task[i]]
    /\ timerTasks' = With(timerTasks, g, nTasks + 1)
    /\ dpc' = [dpc EXCEPT !.pc = "join_log2"]

\* line 327 returns or raises.  An exception leaves handle_new_member at once
\* and is caught by main (line 806): nothing of lines 329-342 runs.
JoinLog1(res) ==
    /\ dpc.pc = "join_log1"
    /\ IF res = "ok"
       THEN RecordAndReschedule(dpc.grp, dpc.usr)
       ELSE /\ dpc' = DispIdle
            /\ UNCHANGED <<newcomers, timerTasks, task, nTasks>>
    /\ UNCHANGED <<welcome_plain, welcome_packs, senders, arrived, inWindow, lastMention,
                   nJoins, nTests>>
    /\ lastJoin' = [any |-> TRUE, grp |-> dpc.grp, usr |-> dpc.usr,
                    listed |-> SeqHas(IF dpc.grp \in DOMAIN newcomers'
                                        THEN newcomers'[dpc.grp] ELSE <<>>, dpc.usr),
                    fresh |-> /\ dpc.grp \in DOMAIN timerTasks'
                              /\ nTasks' = nTasks + 1
                              /\ timerTasks'[dpc.grp] = nTasks'
                              /\ task'[nTasks'].pc = "sleep",
                    others |-> {i \in Runs : /\ i # nTasks'
                                             /\ task'[i].grp = dpc.grp
                                             /\ task'[i].pc \in {"sleep", "emptylog", "greet"}}]
    /\ UNCHANGED <<connVars, trigVars, storeVars>>

\* line 342 returns or raises: the handler is over either way
JoinLog2(res) ==
    /\ dpc.pc = "join_log2"
    /\ dpc' = DispIdle
    /\ UNCHANGED <<newcomers, timerTasks, task, nTasks, welcome_plain, welcome_packs,
                   senders, arrived, inWindow, lastMention, nJoins, nTests>>
    /\ UNCHANGED <<connVars, trigVars, welHist, storeVars>>

\* main, lines 768-774: the super-user sends the test phrase in a
\* welcome-enabled group; main awaits the log message
TestBegin(g) ==
    /\ dpc.pc = "idle"
    /\ nTests < MaxTests
    /\ nTests' = nTests + 1
    /\ dpc' = [pc |-> "test_log", grp |-> g, usr |-> SuperUser]
    /\ inWindow' = [inWindow EXCEPT ![g] = FALSE]
    /\ UNCHANGED <<newcomers, timerTasks, task, nTasks, welcome_plain, welcome_packs,
                   senders, arrived, lastMention, nJoins>>
    /\ UNCHANGED <<connVars, trigVars, welHist, storeVars>>

\* main, lines 774-780: once the log message is answered the list becomes the
\* invoking user alone, the group's task is cancelled and forgotten, and main
\* enters schedule_welcome itself
TestLog(res) ==
    /\ dpc.pc = "test_log"
    /\ IF res = "ok"
       THEN /\ newcomers' = With(newcomers, dpc.grp, <<dpc.usr>>)
            /\ task' = [i \in Runs |->
                           IF i = InlineRun
                           THEN [pc |-> "sleep", grp |-> dpc.grp, idx |-> 0]
                           ELSE IF dpc.grp \in DOMAIN timerTasks /\ i = timerTasks[dpc.grp]
                                THEN Cancelled(task[i])
                                ELSE task[i]]
            /\ timerTasks' = Without(timerTasks, dpc.grp)
            /\ dpc' = [dpc EXCEPT !.pc = "test_run"]
            /\ inWindow' = [inWindow EXCEPT ![dpc.grp] = FALSE]
       ELSE /\ dpc' = DispIdle
            /\ UNCHANGED <<newcomers, timerTasks, task, inWindow>>
    /\ UNCHANGED <<nTasks, welcome_plain, welcome_packs, senders, arrived,
                   lastMention, nJoins, nTests>>
    /\ UNCHANGED <<connVars, trigVars, welHist, storeVars>>

\* a delay that also ends for a task cancelled while it slept
Sleeping_OrCancelled(tk) == tk.pc \in {"sleep", "cancelled_asleep"}

\* line 347: the task is suspended in its delay, and has not been cancelled
Sleeping(tk) == tk.pc = "sleep"

\* schedule_welcome, lines 345-359: the delay of welcome_delay_seconds is over
\* (for every run, the one main awaits included); the run looks at the list
\* and awaits its first log message
Fire(i) ==
    /\ Sleeping(task[i])
    /\ task' = [task EXCEPT ![i] =
                   [@ EXCEPT !.pc = IF ListOf(task[i].grp) = <<>> THEN "emptylog" ELSE "greet",
                             !.idx = 1]]
    /\ inWindow' = [g \in Groups |->
                       /\ inWindow[g]
                       /\ ~(g = task[i].grp /\ dpc.pc = "join_log1" /\ dpc.grp = g)]
    /\ UNCHANGED <<newcomers, timerTasks, nTasks, dpc, welcome_plain, welcome_packs,
                   senders, arrived, lastMention, nJoins, nTests>>
    /\ UNCHANGED <<connVars, trigVars, welHist, storeVars>>

\* line 380: the mention text is built from 新人列表, which is the list
\* object held by 新人记录 (line 352 copies nothing)
MentionUsers(g) == ListOf(g)

\* schedule_welcome, lines 355-388: the send the run is suspended in returns or
\* raises.  A run that sent a message is on record; an exception ends the run
\* where it is (nothing is cleaned up); the answer to the mention message
\* lets lines 386-387 clear the group's entries.
GreetStep(i, res) ==
    /\ task[i].pc \in {"emptylog", "greet"}
    /\ LET g == task[i].grp
           st == StepsOf(i)[task[i].idx]
           last == task[i].idx = Len(StepsOf(i))
           cleanup == res = "ok" /\ last /\ task[i].pc = "greet"
       IN
       /\ senders' = IF res # "fail" /\ st.kind # "log" THEN senders \cup {i} ELSE senders
       /\ lastMention' = IF res # "fail" /\ st.kind = "mention"
                            THEN [lastMention EXCEPT ![g] =
                                     [any |-> TRUE, users |-> MentionUsers(g),
                                      due |-> arrived[g], inWin |-> inWindow[g],
                                      by |-> i,
                                      after |-> Cardinality({j \in Runs :
                                                   /\ task[j].pc = "done"
                                                   /\ task[j].grp = g})]]
                            ELSE lastMention
       /\ task' = [task EXCEPT ![i] =
                      IF res # "ok" THEN [@ EXCEPT !.pc = "failed", !.idx = 0]
                      ELSE IF last THEN [@ EXCEPT !.pc = "done", !.idx = 0]
                      ELSE [@ EXCEPT !.idx = @ + 1]]
       /\ newcomers' = IF cleanup THEN Without(newcomers, g) ELSE newcomers
       /\ timerTasks' = IF cleanup THEN Without(timerTasks, g) ELSE timerTasks
       \* a join event being handled at this moment opens the next round
       /\ arrived' = IF cleanup
                        THEN [arrived EXCEPT ![g] =
                                 IF dpc.pc = "join_log1" /\ dpc.grp = g
                                 THEN <<dpc.usr>> ELSE <<>>]
                        ELSE arrived
       /\ inWindow' = IF cleanup THEN [inWindow EXCEPT ![g] = TRUE] ELSE inWindow
       /\ dpc' = IF i = InlineRun /\ (res # "ok" \/ last) THEN DispIdle ELSE dpc
    /\ UNCHANGED <<nTasks, welcome_plain, welcome_packs, nJoins, nTests>>
    /\ UNCHANGED <<connVars, trigVars, welHist, storeVars>>

NoSettings == 0
NoId == "None"
NoGreeting == [pc |-> "idle", idx |-> 0, plain |-> <<>>, packs |-> <<>>]

\* Store.__init__, lines 154-169
SnapIdle ==
    /\ settings = NoSettings
    /\ self_id = NoId
    /\ greeting = NoGreeting
    /\ nLoads = 0
    /\ used = {}
    /\ replyUsed = {}
    /\ seen = <<>>

\* the welcome scheduler at rest, with no content
WelIdle ==
    /\ newcomers = <<>>
    /\ timerTasks = <<>>
    /\ task = [i \in Runs |-> NoTask]
    /\ nTasks = 0
    /\ dpc = DispIdle
    /\ welcome_plain = <<>>
    /\ welcome_packs = <<>>
    /\ senders = {}
    /\ arrived = [g \in Groups |-> <<>>]
    /\ inWindow = [g \in Groups |-> TRUE]
    /\ lastMention = [g \in Groups |-> NoMention]
    /\ nJoins = 0
    /\ nTests = 0
    /\ lastJoin = NoJoin
    /\ SnapIdle

\* contents of config/welcome as load_all reads them: root-level bodies and
\* the bodies of each directory, any of them possibly empty
Contents == { << <<"hello">>, <<>> >>,
              << <<"">>, << <<"rules", "">> >> >> }

\* the state after load_all, for some contents of config/welcome
WelInit ==
    /\ newcomers = <<>>
    /\ timerTasks = <<>>
    /\ task = [i \in Runs |-> NoTask]
    /\ nTasks = 0
    /\ dpc = DispIdle
    /\ \E c \in Contents : welcome_plain = c[1] /\ welcome_packs = c[2]
    /\ senders = {}
    /\ arrived = [g \in Groups |-> <<>>]
    /\ inWindow = [g \in Groups |-> TRUE]
    /\ lastMention = [g \in Groups |-> NoMention]
    /\ nJoins = 0
    /\ nTests = 0
    /\ lastJoin = NoJoin
    /\ SnapIdle

WelNext ==
    \/ \E g \in Groups, u \in Users : JoinBegin(g, u)
    \/ \E res \in SendResults : JoinLog1(res)
    \/ \E res \in SendResults : JoinLog2(res)
    \/ \E g \in Groups : TestBegin(g)
    \/ \E res \in SendResults : TestLog(res)
    \/ \E i \in Runs : Fire(i)
    \/ \E i \in Runs, res \in SendResults : GreetStep(i, res)

(***************************************************************************)
(* The trigger engine: keyword resolution and delivery of                  *)
(* handle_custom_triggers (lines 507-601).  A text is a sequence of        *)
(* one-character strings.                                                  *)
(***************************************************************************)
\* str.lower() on the characters of the model
LowerChar(c) ==
    CASE c = "A" -> "a" [] c = "B" -> "b" [] c = "C" -> "c" [] c = "N" -> "n" [] OTHER -> c
Lower(s) == [i \in 1..Len(s) |-> LowerChar(s[i])]

\* Python's `k in s` for strings
IsSubstr(k, s) ==
    \E i \in 0..(Len(s) - Len(k)) : \A j \in 1..Len(k) : s[i + j] = k[j]

\* kw_hit, lines 508-509
kw_hit(kw, src_lower) == kw # <<>> /\ IsSubstr(Lower(kw), src_lower)

SeqMax(lens) == IF lens = {} THEN 0 ELSE CHOOSE n \in lens : \A k \in lens : k <= n

RECURSIVE ByLenDesc(_, _)
ByLenDesc(l, n) ==
    IF n < 0 THEN <<>>
    ELSE SelectSeq(l, LAMBDA k : Len(k) = n) \o ByLenDesc(l, n - 1)

\* a resolution that tries the keywords of an entry in their declared order
SortedByLen_Declared(l) == l

\* sorted(trg_list, key=len, reverse=True): longest first, keywords of one
\* length in their declared order (the sort is stable)
SortedByLen(l) == ByLenDesc(l, SeqMax({Len(l[i]) : i \in 1..Len(l)}))

\* lines 516-521 (and 528-533): the first keyword of the sorted list that hits
\* and is longer than the best so far; <<>> when there is none
RECURSIVE FirstLonger(_, _, _)
FirstLonger(sorted, src_lower, best_len) ==
    IF sorted = <<>> THEN <<>>
    ELSE IF kw_hit(Head(sorted), src_lower) /\ Len(Head(sorted)) > best_len
         THEN Head(sorted)
         ELSE FirstLonger(Tail(sorted), src_lower, best_len)

NoBest == [idx |-> 0, len |-> 0, kw |-> <<>>]

\* a scan in which a later entry with a keyword of the same length wins
RECURSIVE Scan_LastWins(_, _, _, _)
Scan_LastWins(entries, i, src_lower, best) ==
    IF i > Len(entries) THEN best
    ELSE LET kw == FirstLonger(SortedByLen(entries[i].kws), src_lower, best.len - 1)
         IN Scan_LastWins(entries, i + 1, src_lower,
                          IF kw # <<>> THEN [idx |-> i, len |-> Len(kw), kw |-> kw]
                          ELSE best)

\* lines 511-521 for trig_singles, 523-533 for trig_groups: the entries are
\* walked in list order from entry i on; best is (best_*, best_len_*, best_kw_*)
RECURSIVE Scan(_, _, _, _)
Scan(entries, i, src_lower, best) ==
    IF i > Len(entries) THEN best
    ELSE LET kw == FirstLonger(SortedByLen(entries[i].kws), src_lower, best.len)
         IN Scan(entries, i + 1, src_lower,
                 IF kw # <<>> THEN [idx |-> i, len |-> Len(kw), kw |-> kw]
                 ELSE best)

\* a decision that prefers the single entry when the lengths are equal
Choose_SingleOnTie(bs, bg) ==
    IF bs.idx = 0 /\ bg.idx = 0 THEN [kind |-> "none", idx |-> 0, kw |-> <<>>]
    ELSE IF bg.idx # 0 /\ bg.len > bs.len THEN [kind |-> "group", idx |-> bg.idx, kw |-> bg.kw]
    ELSE IF bs.idx # 0 THEN [kind |-> "single", idx |-> bs.idx, kw |-> bs.kw]
    ELSE [kind |-> "none", idx |-> 0, kw |-> <<>>]

\* lines 542, 547 and 593: which entry answers, given the best of each kind
Choose(bs, bg) ==
    IF bs.idx = 0 /\ bg.idx = 0 THEN [kind |-> "none", idx |-> 0, kw |-> <<>>]
    ELSE IF bg.idx # 0 /\ bg.len >= bs.len THEN [kind |-> "group", idx |-> bg.idx, kw |-> bg.kw]
    ELSE IF bs.idx # 0 THEN [kind |-> "single", idx |-> bs.idx, kw |-> bs.kw]
    ELSE [kind |-> "none", idx |-> 0, kw |-> <<>>]

\* lines 511-547: the entry chosen for the lowered text
Resolve(singles, groups, src_lower) ==
    Choose(Scan(singles, 1, src_lower, NoBest), Scan(groups, 1, src_lower, NoBest))

\* lines 548-601: the messages the handler hands to send_action, in order,
\* when every send is answered: the parts of a grouped entry that are not
\* empty as one forward message, followed (after a delay) by a hint in a
\* private chat or a reply-and-mention message in a group; nothing when all
\* parts are empty; the body of a single entry as it is
Deliveries(singles, groups, chosen, private) ==
    IF chosen.kind = "group"
    THEN IF Texts(groups[chosen.idx].parts) = <<>> THEN <<>>
         ELSE << [kind |-> "forward", texts |-> Texts(groups[chosen.idx].parts)],
                 [kind |-> IF private THEN "hint" ELSE "reply_at", texts |-> <<>>] >>
    ELSE IF chosen.kind = "single"
    THEN << [kind |-> "text", texts |-> <<singles[chosen.idx].body>>] >>
    ELSE <<>>

\* the messages handed to send_action when the n-th send raises (Timeout or
\* TransportError; n = 0: none raises): the exception leaves the handler and
\* the later sends are not made
Tried(msgs, n) == IF n = 0 THEN msgs ELSE SubSeq(msgs, 1, n)

\* lines 507-601 for one lowered text: the entry chosen, its keyword, and the
\* messages handed to send_action
TriggerReply(text, private, n) ==
    LET chosen == Resolve(trig_singles, trig_groups, Lower(text))
    IN [kind |-> chosen.kind, idx |-> chosen.idx, kw |-> chosen.kw,
        tried |-> Tried(Deliveries(trig_singles, trig_groups, chosen, private), n)]

\* how many sends lines 507-601 make for a text when every send is answered
SendsFor(text, private) ==
    Len(Deliveries(trig_singles, trig_groups,
                   Resolve(trig_singles, trig_groups, Lower(text)), private))

NoReply == [kind |-> "pending", idx |-> 0, kw |-> <<>>, tried |-> <<>>]
NoMsg == [text |-> <<>>, private |-> FALSE]

\* the sends of one handler run: 0 when all are answered, else which one raises
SendFailures == 0..2

\* handle_custom_triggers for a message that mentions the bot with @ and
\* comes from the super-user: the entry gate is passed and no cooldown applies
KwHandle(n) ==
    /\ kwMsg # NoMsg
    /\ reply = NoReply
    /\ n <= SendsFor(kwMsg.text, kwMsg.private)
    /\ reply' = TriggerReply(kwMsg.text, kwMsg.private, n)
    /\ UNCHANGED <<connVars, welVars, trig_singles, trig_groups, kwMsg, coolVars, swVars>>

SeqsUpTo(S, n) == UNION {[1..k -> S] : k \in 0..n}

\* the trigger lists a content directory can give: load_all keeps the entries
\* in file-name order, each with its non-blank keywords as declared; a
\* grouped entry has at least one part, whose body may be empty
KwLists == { << <<"a", "b">> >>,
             << <<"a", "b", "c">> >>,
             << <<"B", "C">>, <<"d">> >>,
             << <<"d">>, <<"a", "b", "c">> >> }
SingleEntries == {[kws |-> k, body |-> "s"] : k \in KwLists}
GroupEntries ==
    {[kws |-> k, parts |-> <<"t", "">>] : k \in KwLists}
       \cup {[kws |-> << <<"a", "b">> >>, parts |-> <<"">>]}

\* the text of a message after strip(), and whether it is a private message
KwTexts == { <<"a", "b", "c", "d">>, <<"x", "A", "B">> }
KwMessages == {[text |-> t, private |-> p] : t \in KwTexts, p \in BOOLEAN}

StoreIdle == trig_singles = <<>> /\ trig_groups = <<>>
KwIdle == kwMsg = NoMsg /\ reply = NoReply

KwInit ==
    /\ trig_singles \in SeqsUpTo(SingleEntries, MaxEntries)
    /\ trig_groups \in SeqsUpTo(GroupEntries, MaxEntries)
    /\ kwMsg \in KwMessages
    /\ reply = NoReply

KwNext == \E n \in SendFailures : KwHandle(n)

(***************************************************************************)
(* The trigger engine: the permission gate of main() (lines 781-804), the  *)
(* entry gate and the cooldown of handle_custom_triggers (lines 477-505).  *)
(* Time is counted in whole seconds.                                       *)
(***************************************************************************)
\* STORE.settings
names == << <<"n">> >>
trigger_enabled == TRUE
trigger_groups == {"g1"}
trigger_enable_private == TRUE
trigger_cooldown_seconds == 2

TrigGroups == {"g1", "g2"}
TrigUsers == {"u1", SuperUser}
\* none of these texts is a switch command or the test phrase
TrigTexts == { <<"n", "a", "b">>, <<"a", "b">>, <<"N", "x">> }

\* message events: handle_custom_triggers gets the user id as group_id for a
\* private message (line 802)
TrigEvents ==
    {[type |-> "group", grp |-> g, usr |-> u, at_me |-> a, text |-> t] :
        g \in TrigGroups, u \in TrigUsers, a \in BOOLEAN, t \in TrigTexts}
      \cup
    {[type |-> "private", grp |-> u, usr |-> u, at_me |-> a, text |-> t] :
        u \in TrigUsers, a \in BOOLEAN, t \in TrigTexts}

\* lines 391-399
is_group_trigger_allowed(group_id) ==
    \/ group_id \in trigger_groups
    \/ trigger_allow_nonlisted_groups /\ group_id \in TRIG_STATE.group_enabled

\* lines 401-406
is_private_trigger_allowed(user_id) ==
    trigger_enable_private /\ user_id \notin TRIG_STATE.dm_blocked

\* lines 459-467
contains_any_name(text, nms) ==
    /\ text # <<>>
    /\ nms # <<>>
    /\ \E i \in 1..Len(nms) : nms[i] # <<>> /\ IsSubstr(Lower(nms[i]), Lower(text))

\* line 500: 触发冷却记录.get(key, 0.0)
LastOf(key) == IF key \in DOMAIN cooldownRecord THEN cooldownRecord[key] ELSE 0

\* a cooldown check that never rejects
InCooldown_Never(now, last) == FALSE

\* line 502
InCooldown(now, last) == now - last < trigger_cooldown_seconds

\* an acceptance that leaves no record
Stamp_Skip(rec, key, now) == rec

\* line 505
Stamp(rec, key, now) == With(rec, key, now)

NoTime == 0 - 1
NoHandled == [key |-> <<"", "">>, at |-> NoTime, permitted |-> FALSE,
              addressed |-> FALSE, super |-> FALSE, prevAcc |-> NoTime,
              accepted |-> FALSE, hit |-> FALSE, tried |-> <<>>]

\* the dispatcher handles one message event that is neither the test phrase
\* nor a switch command: lines 761-804, then handle_custom_triggers; its n-th
\* send raises (n = 0: none)
MessageEvent(ev, n) ==
    LET permitted == trigger_enabled /\
                       IF ev.type = "group" THEN is_group_trigger_allowed(ev.grp)
                       ELSE is_private_trigger_allowed(ev.usr)
        addressed == ev.at_me \/ contains_any_name(ev.text, names)
        key == <<ev.grp, ev.usr>>
        super == ev.usr = SuperUser
        now == clock
        rejected == ~super /\ InCooldown(now, LastOf(key))
        entered == permitted /\ addressed
        r == TriggerReply(ev.text, ev.type = "private", n)
    IN /\ n <= (IF entered /\ ~rejected
                  THEN SendsFor(ev.text, ev.type = "private") ELSE 0)
       /\ cooldownRecord' = IF entered /\ ~super /\ ~rejected
                               THEN Stamp(cooldownRecord, key, now)
                               ELSE cooldownRecord
       /\ acceptedAt' = IF entered /\ ~super /\ ~rejected
                           THEN With(acceptedAt, key, now)
                           ELSE acceptedAt
       /\ handled' = [key |-> key, at |-> now, permitted |-> permitted,
                       addressed |-> addressed, super |-> super,
                       prevAcc |-> IF key \in DOMAIN acceptedAt
                                     THEN acceptedAt[key] ELSE NoTime,
                       accepted |-> entered /\ ~rejected,
                       hit |-> r.kind # "none",
                       tried |-> IF entered /\ ~rejected THEN r.tried ELSE <<>>]
       /\ UNCHANGED <<connVars, welVars, trig_singles, trig_groups, kwMsg, reply,
                       clock, TRIG_STATE, swVars>>

\* a second passes
Tick ==
    /\ clock < MaxClock
    /\ clock' = clock + 1
    /\ UNCHANGED <<connVars, welVars, trig_singles, trig_groups, kwMsg, reply,
                    cooldownRecord, TRIG_STATE, handled, acceptedAt, swVars>>

CoolIdle ==
    /\ clock = trigger_cooldown_seconds
    /\ cooldownRecord = <<>>
    /\ TRIG_STATE = [group_enabled |-> {}, dm_blocked |-> {}]
    /\ handled = NoHandled
    /\ acceptedAt = <<>>

\* the content of the trigger directory
TrigConfigs ==
    { << << [kws |-> << <<"a", "b">> >>, body |-> "s"] >>, <<>> >>,
      << <<>>, << [kws |-> << <<"A", "b">> >>, parts |-> <<"t", "">>] >> >> }

\* the process has started: time.time() is far beyond the threshold, no
\* cooldown is recorded, trigger_state.json is loaded
TrigInit ==
    /\ \E c \in TrigConfigs : trig_singles = c[1] /\ trig_groups = c[2]
    /\ clock = trigger_cooldown_seconds
    /\ cooldownRecord = <<>>
    /\ TRIG_STATE \in {[group_enabled |-> ge, dm_blocked |-> db] :
                            ge \in SUBSET {"g2"}, db \in SUBSET {"u1"}}
    /\ handled = NoHandled
    /\ acceptedAt = <<>>

TrigNext ==
    \/ Tick
    \/ \E ev \in TrigEvents, n \in SendFailures : MessageEvent(ev, n)

(***************************************************************************)
(* The switch command (maybe_handle_trigger_switch, lines 619-698) and the *)
(* durable toggle state (_state_load, _state_save, lines 300-317).         *)
(* "re" stands for the word of the command, "on" and "off" for its two     *)
(* arguments; group_enabled and dm_blocked are lists without duplicates,   *)
(* kept here as sets.                                                      *)
(***************************************************************************)
EmptyState == [group_enabled |-> {}, dm_blocked |-> {}]
ToggleStates ==
    {[group_enabled |-> ge, dm_blocked |-> db] :
        ge \in SUBSET TrigGroups, db \in SUBSET TrigUsers}

\* the file trigger_state.json: holding the state st, absent, or not JSON
FileOf(st) == [kind |-> "json", st |-> st]
NoFile == [kind |-> "absent", st |-> EmptyState]
BadFile == [kind |-> "bad", st |-> EmptyState]

RECURSIVE SkipSpaces(_)
SkipSpaces(s) == IF s # <<>> /\ Head(s) = " " THEN SkipSpaces(Tail(s)) ELSE s

\* lines 604-617 and 645: the argument of the command when the text is a
\* name (in any case), the command word and, after optional blanks, "on" or
\* "off"; "none" when the pattern does not match
SwitchMatch(text, nms) ==
    IF \E i \in 1..Len(nms) :
          /\ nms[i] # <<>>
          /\ Len(text) > Len(nms[i]) + 1
          /\ Lower(SubSeq(text, 1, Len(nms[i]))) = Lower(nms[i])
          /\ text[Len(nms[i]) + 1] = "re"
          /\ SkipSpaces(SubSeq(text, Len(nms[i]) + 2, Len(text))) \in {<<"on">>, <<"off">>}
    THEN LET i == CHOOSE k \in 1..Len(nms) :
                    /\ nms[k] # <<>>
                    /\ Len(text) > Len(nms[k]) + 1
                    /\ Lower(SubSeq(text, 1, Len(nms[k]))) = Lower(nms[k])
                    /\ text[Len(nms[k]) + 1] = "re"
                    /\ SkipSpaces(SubSeq(text, Len(nms[k]) + 2, Len(text)))
                          \in {<<"on">>, <<"off">>}
         IN SkipSpaces(SubSeq(text, Len(nms[i]) + 2, Len(text)))[1]
    ELSE "none"

Roles == {"owner", "admin", "member"}
SwitchTexts == { <<"n", "re", "on">>, <<"N", "re", " ", "off">> }
SwitchEvents ==
    {[type |-> "group", grp |-> g, usr |-> u, role |-> r, text |-> t] :
        g \in TrigGroups, u \in TrigUsers, r \in Roles, t \in SwitchTexts}
      \cup
    {[type |-> "private", grp |-> u, usr |-> u, role |-> "member", text |-> t] :
        u \in TrigUsers, t \in SwitchTexts}

\* a permission check that lets every sender through
is_admin_Anyone(ev) == TRUE

\* line 667
is_admin(ev) == ev.role \in {"owner", "admin"} \/ ev.usr = SuperUser

\* a handler without the rules of the static allow list and of the global flag
Toggled_Unguarded(st, ev, act) ==
    IF ev.type = "private"
    THEN [st EXCEPT !.dm_blocked = IF act = "off" THEN @ \cup {ev.usr} ELSE @ \ {ev.usr}]
    ELSE IF ~is_admin(ev) THEN st
    ELSE IF act = "off" THEN [st EXCEPT !.group_enabled = @ \ {ev.grp}]
         ELSE [st EXCEPT !.group_enabled = @ \cup {ev.grp}]

\* lines 652-693: the toggle state the handler leaves in memory
Toggled(st, ev, act) ==
    IF ev.type = "private"
    THEN [st EXCEPT !.dm_blocked = IF act = "off" THEN @ \cup {ev.usr} ELSE @ \ {ev.usr}]
    ELSE IF ~is_admin(ev) THEN st
    ELSE IF act = "off"
         THEN IF ev.grp \in trigger_groups THEN st
              ELSE [st EXCEPT !.group_enabled = @ \ {ev.grp}]
         ELSE IF ev.grp \notin trigger_groups /\ ~trigger_allow_nonlisted_groups THEN st
              ELSE IF ev.grp \notin trigger_groups
                   THEN [st EXCEPT !.group_enabled = @ \cup {ev.grp}]
                   ELSE st

\* lines 652-693: the message the handler sends at its end
Answer(ev, act) ==
    IF ev.type = "private"
    THEN IF act = "off" THEN "dm_closed" ELSE "dm_opened"
    ELSE IF ~is_admin(ev) THEN "denied"
    ELSE IF act = "off"
         THEN IF ev.grp \in trigger_groups THEN "listed_not_closable" ELSE "closed"
         ELSE IF ev.grp \notin trigger_groups /\ ~trigger_allow_nonlisted_groups
              THEN "nonlisted_not_allowed"
              ELSE "opened"

SaveResults == {"ok", "fail"}

\* a save that reports success without writing the file
state_save_Drop(file, st, res) == file

\* lines 314-317: the file after a _state_save of st that ends as res
state_save(file, st, res) == IF res = "ok" THEN FileOf(st) ELSE file

\* a handler that sends its answer whatever became of the save
AfterSave_AlwaysSays(saves, res, msg) == msg

\* lines 655-658, 661-663, 682-684, 691-693: the send follows _state_save in
\* the same branch, so an exception of the save leaves the handler unanswered
AfterSave(saves, res, msg) == IF saves /\ res = "fail" THEN "none" ELSE msg

NoSwitch == [n |-> 0, ev |-> [type |-> "none"], act |-> "none", said |-> "none",
             saved |-> "none", memBefore |-> EmptyState, fileBefore |-> NoFile,
             memAfter |-> EmptyState, fileAfter |-> NoFile]

\* the dispatcher handles a message event whose text is a switch command:
\* the handler changes TRIG_STATE, saves it when it changed (the save ends as
\* res; when it raises, the exception leaves the handler and nothing is
\* sent), then sends its answer and returns True
SwitchCommand(ev, res) ==
    LET act == SwitchMatch(ev.text, names)
        st == Toggled(TRIG_STATE, ev, act)
        saves == st # TRIG_STATE
    IN /\ proc = "up"
       /\ switched.n < MaxSwitches
       /\ act # "none"
       /\ saves \/ res = "ok"
       /\ TRIG_STATE' = st
       /\ stateFile' = IF saves THEN state_save(stateFile, st, res) ELSE stateFile
       /\ switched' = [n |-> switched.n + 1, ev |-> ev, act |-> act,
                       said |-> AfterSave(saves, res, Answer(ev, act)),
                       saved |-> IF saves THEN res ELSE "none",
                       memBefore |-> TRIG_STATE, fileBefore |-> stateFile,
                       memAfter |-> st,
                       fileAfter |-> IF saves THEN state_save(stateFile, st, res)
                                      ELSE stateFile]
       /\ UNCHANGED <<connVars, welVars, trig_singles, trig_groups, kwMsg, reply,
                       clock, cooldownRecord, handled, acceptedAt, proc,
                       trigger_allow_nonlisted_groups>>

\* lines 300-312, run by main() at line 712 of a new process: the state in
\* memory and the file after _state_load, whose _state_save (made when the
\* file is absent or cannot be parsed) ends as res; a save that raises in the
\* except clause ends the process
Restart(res) ==
    /\ res = "ok" \/ stateFile.kind # "json"
    /\ IF stateFile.kind = "json"
       THEN /\ TRIG_STATE' = stateFile.st
            /\ UNCHANGED stateFile
            /\ proc' = "up"
       ELSE /\ TRIG_STATE' = EmptyState
            /\ stateFile' = state_save(stateFile, EmptyState, res)
            /\ proc' = IF res = "ok" THEN "up" ELSE "down"
    /\ UNCHANGED <<connVars, welVars, trig_singles, trig_groups, kwMsg, reply,
                    clock, cooldownRecord, handled, acceptedAt, switched,
                    trigger_allow_nonlisted_groups>>

\* the file is removed or damaged by something other than the program
FileLost(how) ==
    /\ stateFile.kind = "json"
    /\ stateFile' = how
    /\ UNCHANGED <<connVars, welVars, trig_singles, trig_groups, kwMsg, reply,
                    coolVars, proc, switched, trigger_allow_nonlisted_groups>>

SwIdle ==
    /\ stateFile = FileOf(EmptyState)
    /\ proc = "up"
    /\ switched = NoSwitch
    /\ trigger_allow_nonlisted_groups = TRUE

\* the process has started and _state_load has read the file
SwInit ==
    /\ clock = trigger_cooldown_seconds
    /\ cooldownRecord = <<>>
    /\ handled = NoHandled
    /\ acceptedAt = <<>>
    /\ TRIG_STATE \in ToggleStates
    /\ stateFile = FileOf(TRIG_STATE)
    /\ proc = "up"
    /\ switched = NoSwitch
    /\ trigger_allow_nonlisted_groups \in BOOLEAN

SwNext ==
    \/ \E ev \in SwitchEvents, res \in SaveResults : SwitchCommand(ev, res)
    \/ \E res \in SaveResults : Restart(res)
    \/ \E how \in {NoFile, BadFile} : FileLost(how)

(***************************************************************************)
(* main, lines 781-804: a group or private message that is not the test    *)
(* phrase goes to maybe_handle_trigger_switch first and reaches the        *)
(* trigger engine only when that returned False.                           *)
(***************************************************************************)
\* a dispatcher that asks the trigger engine whatever the switch handler did
FallsThrough_Always(ev) == TRUE

\* lines 783-784 and 796-797: maybe_handle_trigger_switch returned False,
\* which it does for a text that the switch pattern does not match (line 647)
FallsThrough(ev) == SwitchMatch(ev.text, names) = "none"

ChatRoles == {"admin", "member"}
\* a group outside trigger_groups, which the switch command opens and closes
ChatGroups == {"g2"}
ChatUsers == {"u1"}
ChatTexts == SwitchTexts \cup { <<"n", "re", "a", "b">> }
\* every text holds a name, so the events need no mention of the bot
ChatEvents ==
    {[type |-> "group", grp |-> g, usr |-> u, role |-> r, at_me |-> FALSE, text |-> t] :
        g \in ChatGroups, u \in ChatUsers, r \in ChatRoles, t \in ChatTexts}
      \cup
    {[type |-> "private", grp |-> u, usr |-> u, role |-> "member", at_me |-> FALSE,
      text |-> t] : u \in ChatUsers, t \in ChatTexts}
\* the events whose text is a switch command
SwitchChatEvents == {ev \in ChatEvents : ev.text \in SwitchTexts}

\* the dispatcher handles one message event; res is the result of the
\* switch handler's save, n the send of the trigger engine that raises
ChatMessage(ev, res, n) ==
    /\ n = 0 \/ res = "ok"
    /\ IF FallsThrough(ev)
       THEN res = "ok" /\ MessageEvent(ev, n)
       ELSE n = 0 /\ SwitchCommand(ev, res)

\* the content of the trigger directory: keywords that switch commands contain
ChatConfigs ==
    { << << [kws |-> << <<"re">> >>, body |-> "s"] >>, <<>> >>,
      << <<>>, << [kws |-> << <<"N">>, <<"a", "b">> >>, parts |-> <<"t", "">>] >> >> }

ChatInit ==
    /\ \E c \in ChatConfigs : trig_singles = c[1] /\ trig_groups = c[2]
    /\ clock = trigger_cooldown_seconds
    /\ cooldownRecord = <<>>
    /\ handled = NoHandled
    /\ acceptedAt = <<>>
    /\ TRIG_STATE \in {st \in ToggleStates : /\ st.dm_blocked \subseteq ChatUsers
                                               /\ st.group_enabled \subseteq ChatGroups}
    /\ stateFile = FileOf(TRIG_STATE)
    /\ proc = "up"
    /\ switched = NoSwitch
    /\ trigger_allow_nonlisted_groups = TRUE

ChatNext ==
    \/ Tick
    \/ \E ev \in ChatEvents, res \in SaveResults, n \in SendFailures :
          ChatMessage(ev, res, n)

(***************************************************************************)
(* Store.load_all and maybe_reload (lines 205-289), run by main at line    *)
(* 711 and by reloader_loop every 2 seconds, and the readers of the Store. *)
(* load_all contains no await: the other tasks see the Store as it was     *)
(* before the call or as the call left it.  A setting or an entry is       *)
(* represented by the number of the load that read it.                     *)
(***************************************************************************)
\* what load number k finds in config/: two root-level welcome files, one
\* welcome directory with one part, one single and one grouped trigger
PlainOf(k) == <<k, k>>
PacksOf(k) == << <<k>> >>
SinglesOf(k) == <<k>>
GroupsOf(k) == <<k>>

\* where load_all may raise: read_toml (line 208), parse_md_with_frontmatter
\* on a root-level welcome file (218), in a welcome directory (228), on a
\* root-level trigger file (241), in a trigger directory (255, 261); "done"
\* when it returns
Stages == {"settings", "plain", "packs", "singles", "groups", "done"}

\* lines 206-267: the fields of the Store when load number k has stopped at
\* stage, after n root-level welcome files; a field is assigned or emptied
\* when load_all gets to it and was left alone before
LoadAll(k, stage, n) ==
    [settings      |-> IF stage = "settings" THEN settings ELSE k,
     welcome_plain |-> CASE stage = "settings" -> welcome_plain
                         [] stage = "plain" -> SubSeq(PlainOf(k), 1, n)
                         [] OTHER -> PlainOf(k),
     welcome_packs |-> CASE stage = "settings" -> welcome_packs
                         [] stage \in {"plain", "packs"} -> <<>>
                         [] OTHER -> PacksOf(k),
     trig_singles  |-> CASE stage \in {"settings", "plain", "packs"} -> trig_singles
                         [] stage = "singles" -> <<>>
                         [] OTHER -> SinglesOf(k),
     trig_groups   |-> CASE stage \in {"settings", "plain", "packs"} -> trig_groups
                         [] stage \in {"singles", "groups"} -> <<>>
                         [] OTHER -> GroupsOf(k)]

\* load_all runs: at line 711, where an exception ends the process before it
\* has done anything, or from maybe_reload, whose exception reloader_loop
\* catches (line 705)
Load(stage, n) ==
    /\ nLoads < MaxLoads
    /\ nLoads = 0 => stage = "done"
    /\ IF stage = "plain" THEN n < Len(PlainOf(nLoads + 1)) ELSE n = 0
    /\ nLoads' = nLoads + 1
    /\ LET st == LoadAll(nLoads + 1, stage, n)
       IN /\ settings' = st.settings
          /\ welcome_plain' = st.welcome_plain
          /\ welcome_packs' = st.welcome_packs
          /\ trig_singles' = st.trig_singles
          /\ trig_groups' = st.trig_groups
    /\ UNCHANGED <<connVars, welOther, trigOther, self_id, greeting, used, replyUsed, seen>>

Loads(q) == {q[i] : i \in 1..Len(q)}

\* line 376: STORE.self_id or STORE.settings.get("forward_sender_id", ...)
SenderFrom == IF self_id = NoId THEN {settings} ELSE {}

\* schedule_welcome, lines 352-359: the delay is over, the list is not empty;
\* the run awaits the log message it sends to STORE.settings["log_group"]
GreetingStart ==
    /\ nLoads > 0
    /\ greeting.pc = "idle"
    /\ greeting' = [greeting EXCEPT !.pc = "log"]
    /\ used' = {settings}
    /\ UNCHANGED <<connVars, welOther, trigVars, welcome_plain, welcome_packs, settings,
                   self_id, nLoads, replyUsed, seen>>

\* line 371: sorted(STORE.welcome_packs) is made when the loop over the
\* root-level entries is over; the run awaits the forward of the first
\* directory, or the mention if there is none
EnterPacks(u) ==
    IF welcome_packs # <<>>
    THEN [g |-> [pc |-> "packs", idx |-> 1, plain |-> <<>>, packs |-> welcome_packs],
          u |-> u \cup Loads(welcome_packs[1]) \cup SenderFrom]
    ELSE [g |-> [pc |-> "mention", idx |-> 0, plain |-> <<>>, packs |-> <<>>], u |-> u]

\* lines 359-383: the send the run awaits (with the sleep of
\* welcome_gap_seconds after it) is over.  Line 361 reads the gap and line
\* 364 makes sorted(STORE.welcome_plain) when the log message has been
\* answered; an exception ends the run.
GreetingStep(res) ==
    /\ greeting.pc \in {"log", "plain", "packs", "mention"}
    /\ LET nx ==
            IF res # "ok" THEN [g |-> [greeting EXCEPT !.pc = "failed"], u |-> used]
            ELSE CASE greeting.pc = "log" ->
                        IF welcome_plain # <<>>
                        THEN [g |-> [pc |-> "plain", idx |-> 1, plain |-> welcome_plain,
                                     packs |-> <<>>],
                              u |-> used \cup {settings, welcome_plain[1]}]
                        ELSE EnterPacks(used \cup {settings})
                   [] greeting.pc = "plain" ->
                        IF greeting.idx < Len(greeting.plain)
                        THEN [g |-> [greeting EXCEPT !.idx = @ + 1],
                              u |-> used \cup {greeting.plain[greeting.idx + 1]}]
                        ELSE EnterPacks(used)
                   [] greeting.pc = "packs" ->
                        IF greeting.idx < Len(greeting.packs)
                        THEN [g |-> [greeting EXCEPT !.idx = @ + 1],
                              u |-> used \cup Loads(greeting.packs[greeting.idx + 1])
                                         \cup SenderFrom]
                        ELSE [g |-> [pc |-> "mention", idx |-> 0, plain |-> <<>>,
                                     packs |-> <<>>],
                              u |-> used]
                   [] OTHER -> [g |-> [greeting EXCEPT !.pc = "done"], u |-> used]
       IN greeting' = nx.g /\ used' = nx.u
    /\ UNCHANGED <<connVars, welOther, trigVars, welcome_plain, welcome_packs, settings,
                   self_id, nLoads, replyUsed, seen>>

\* handle_custom_triggers, lines 491-533: the names and the cooldown of
\* STORE.settings and the entries of both trigger lists are read without an
\* await in between
Reply ==
    /\ nLoads > 0
    /\ replyUsed' = {settings} \cup Loads(trig_singles) \cup Loads(trig_groups)
    /\ UNCHANGED <<connVars, welOther, trigVars, welcome_plain, welcome_packs, settings,
                   self_id, greeting, nLoads, used, seen>>

\* the self_id an event carries; "" when it has none, or a falsy one
SelfIds == {"", "b1", "b2"}

\* a capture that follows the latest event
Capture_Latest(cur, sid) == IF sid # "" THEN sid ELSE cur

\* lines 744-747
Capture(cur, sid) == IF cur = NoId /\ sid # "" THEN sid ELSE cur

\* main, lines 741-748: an event is taken from EVENT_QUEUE
Dequeue(sid) ==
    /\ sup = "Connected"
    /\ Len(seen) < MaxSeen
    /\ seen' = Append(seen, sid)
    /\ self_id' = Capture(self_id, sid)
    /\ UNCHANGED <<connVars, welOther, trigVars, welcome_plain, welcome_packs, settings,
                   greeting, nLoads, used, replyUsed>>

StoreNext ==
    \/ \E stage \in Stages, n \in 0..1 : Load(stage, n)
    \/ GreetingStart
    \/ \E res \in {"ok", "fail"} : GreetingStep(res)
    \/ Reply
    \/ \E sid \in SelfIds : Dequeue(sid)
    \/ nLoads > 0 /\ (ConnectOk \/ ConnectFail \/ BackoffElapsed \/ TransportClose)

\* the steps the program takes by itself
ProgramStep ==
    \/ BackoffElapsed
    \/ ReaderEnd
    \/ Dispatch
    \/ \E c \in Callers : SendOk(c) \/ SendFail(c) \/ CallReturn(c) \/ CallTimeout(c)

\* the steps that depend on the gateway, the network or a triggering event
EnvStep ==
    \/ ConnectOk
    \/ ConnectFail
    \/ TransportClose
    \/ \E f \in Frames \cup {Malformed} : ReaderRecv(f)
    \/ TimerCall
    \/ CancelTimerCall

Init == ConnInit /\ WelIdle /\ StoreIdle /\ KwIdle /\ CoolIdle /\ SwIdle
InitWelcome == ConnInit /\ WelInit /\ StoreIdle /\ KwIdle /\ CoolIdle /\ SwIdle
InitKw == ConnInit /\ WelIdle /\ KwInit /\ CoolIdle /\ SwIdle
InitTrig == ConnInit /\ WelIdle /\ KwIdle /\ TrigInit /\ SwIdle
InitSwitch == ConnInit /\ WelIdle /\ StoreIdle /\ KwIdle /\ SwInit
InitChat == ConnInit /\ WelIdle /\ KwIdle /\ ChatInit
Next == ProgramStep \/ EnvStep

\* the connection engine
Spec == Init /\ [][Next]_vars

\* asyncio runs every task that is ready, and every timeout and sleep ends
FairSpec ==
    /\ Spec
    /\ WF_vars(BackoffElapsed)
    /\ WF_vars(ReaderEnd)
    /\ WF_vars(Dispatch)
    /\ \A c \in Callers :
          WF_vars(SendOk(c) \/ SendFail(c) \/ CallReturn(c) \/ CallTimeout(c))

\* the welcome scheduler
SpecWelcome == InitWelcome /\ [][WelNext]_vars

\* keyword resolution, over the trigger lists and messages of KwInit
SpecKw == InitKw /\ [][KwNext]_vars

\* the Store, its loads and its readers
SpecStore == Init /\ [][StoreNext]_vars

\* the routing of messages between the switch handler and the trigger engine
SpecChat == InitChat /\ [][ChatNext]_vars

\* the gates and the cooldown of the trigger engine
SpecTrig == InitTrig /\ [][TrigNext]_vars

\* the switch command and the durable toggle state
SpecSwitch == InitSwitch /\ [][SwNext]_vars

(***************************************************************************)
(* Properties of the connection engine                                     *)
(***************************************************************************)
RangeOf(q) == {q[i] : i \in 1..Len(q)}

\* C1: once the transport of an established connection has closed, main
\* eventually leaves the Connected state (to back off and connect again), and
\* every event that was in the queue at the disconnection is still dequeued.
C1_ReconnectsAfterClose ==
    /\ (sup = "Connected" /\ ~wsOpen) ~> (sup # "Connected")
    /\ \A e \in 1..MaxEvents :
          (~wsOpen /\ e \in RangeOf(EVENT_QUEUE)) ~> (e \in RangeOf(dispatched))

\* the second half of C1 alone: queued events survive the disconnection
QueuedEventsStillDispatched ==
    \A e \in 1..MaxEvents :
        (~wsOpen /\ e \in RangeOf(EVENT_QUEUE)) ~> (e \in RangeOf(dispatched))

\* C3: once an invocation of send_action has returned or raised, the
\* pending-action map holds no entry for its echo.
C3_NoEntryAfterExit ==
    \A t \in Tokens : outcome[t].kind # "none" => t \notin DOMAIN PENDING_ACTIONS

\* C4: a send_action whose request was sent and for which no response frame
\* with its echo resolved the future ends with Timeout (unless its task was
\* cancelled), and no timed-out invocation leaves an entry in the map: every
\* entry belongs to an invocation that has not timed out.
C4_TimeoutLeavesNoWaiter ==
    /\ \A t \in Tokens :
          (/\ outcome[t].kind \notin {"none", "Cancelled"}
           /\ t \in wireSent
           /\ t \notin resolved) => outcome[t].kind = "Timeout"
    /\ \A t \in Tokens : outcome[t].kind = "Timeout" => t \notin DOMAIN PENDING_ACTIONS
    /\ Cardinality(DOMAIN PENDING_ACTIONS)
          <= Cardinality({t \in Tokens : outcome[t].kind # "Timeout"})

\* C4's case: two invocations have timed out and the map is empty again
C4_Witness ==
    /\ Cardinality({t \in Tokens : outcome[t].kind = "Timeout"}) >= 2
    /\ DOMAIN PENDING_ACTIONS = {}

\* C5: a future is only ever resolved with the response frame that carries
\* its own echo, and an invocation only ever returns such a frame.
C5_ResponseByToken ==
    /\ \A t \in DOMAIN PENDING_ACTIONS :
          PENDING_ACTIONS[t].done => PENDING_ACTIONS[t].echo = t
    /\ \A t \in Tokens : outcome[t].kind = "response" => outcome[t].echo = t

\* C5's case: the dispatcher and the timer task were both waiting, and the
\* response to the later invocation arrived and was returned first
C5_Witness ==
    \E t1, t2 \in Tokens :
        /\ t1 < t2
        /\ outcome[t2].kind = "response"
        /\ t1 \in DOMAIN PENDING_ACTIONS
        /\ ~PENDING_ACTIONS[t1].done
        /\ \E c \in Callers : callPc[c] = "waiting" /\ callTok[c] = t1

\* C6: the events dequeued so far, followed by the events still queued, are
\* the events ws_reader received, in the order it received them.
C6_FifoDispatch == dispatched \o EVENT_QUEUE = received

\* C6's case: two events dispatched, with a response frame routed between
\* their frames
C6_Witness == Len(dispatched) >= 2 /\ mix = 3

(***************************************************************************)
(* Properties of the welcome scheduler                                     *)
(***************************************************************************)
\* C2: when every join event of a group was handled while the delay started
\* by the previous one was still running, the mention message of the greeting
\* addresses exactly the distinct users that joined, in order of first arrival.
C2_GreetingMentionsAllJoiners ==
    \A g \in Groups :
        (lastMention[g].any /\ lastMention[g].inWin)
            => lastMention[g].users = lastMention[g].due


(***************************************************************************)
(* Properties of keyword resolution                                        *)
(***************************************************************************)
\* the message has been handled
Resolved == reply.kind # "pending"
KwLow == Lower(kwMsg.text)

\* the lengths of the keywords of an entry that occur in the lowered text
HitLens(e, low) ==
    {Len(e.kws[j]) : j \in {k \in 1..Len(e.kws) : kw_hit(e.kws[k], low)}}
\* per entry of a list, the length of its longest keyword that occurs (0: none)
Longest(entries, low) == [i \in 1..Len(entries) |-> SeqMax(HitLens(entries[i], low))]
\* the length of the longest keyword of a list that occurs (0: none)
MaxOf(entries, low) == SeqMax({Longest(entries, low)[i] : i \in 1..Len(entries)})
MaxS == MaxOf(trig_singles, KwLow)
MaxG == MaxOf(trig_groups, KwLow)
MaxAll == IF MaxS > MaxG THEN MaxS ELSE MaxG
\* the places (entry, keyword) of a list where a keyword of length m occurs
Places(entries, low, m) ==
    UNION {{<<i, j>> : j \in {k \in 1..Len(entries[i].kws) :
                                 kw_hit(entries[i].kws[k], low) /\ Len(entries[i].kws[k]) = m}} :
           i \in 1..Len(entries)}
\* exactly one configured keyword of the maximum length occurs in the text
UniqueMax ==
    /\ MaxAll > 0
    /\ Cardinality(Places(trig_singles, KwLow, MaxAll))
         + Cardinality(Places(trig_groups, KwLow, MaxAll)) = 1
\* the first entry of a list whose longest occurring keyword has length m
FirstWith(entries, low, m) ==
    CHOOSE i \in 1..Len(entries) :
        /\ Longest(entries, low)[i] = m
        /\ \A k \in 1..(i - 1) : Longest(entries, low)[k] # m
Perms(n) == {p \in [1..n -> 1..n] : \A i, j \in 1..n : p[i] = p[j] => i = j}
Permuted(entries, p) == [i \in 1..Len(entries) |-> entries[p[i]]]
KwsOf(e) == {e.kws[j] : j \in 1..Len(e.kws)}
NoTextTried == \A k \in 1..Len(reply.tried) : reply.tried[k].kind # "text"

\* C7: the entry selected is one whose matched keyword has the maximum length
\* among all configured keywords (single and grouped) that occur in the
\* message as a case-insensitive substring, and no entry is selected exactly
\* when no keyword occurs; when one keyword only has that maximum length, the
\* same entry is selected under every order of the single entries and every
\* order of the grouped entries.
C7_LongestKeywordWins ==
    Resolved =>
      /\ (reply.kind = "none") <=> (MaxAll = 0)
      /\ reply.kind = "single" =>
            /\ reply.kw \in KwsOf(trig_singles[reply.idx])
            /\ kw_hit(reply.kw, KwLow) /\ Len(reply.kw) = MaxAll
      /\ reply.kind = "group" =>
            /\ reply.kw \in KwsOf(trig_groups[reply.idx])
            /\ kw_hit(reply.kw, KwLow) /\ Len(reply.kw) = MaxAll
      /\ UniqueMax =>
            \A ps \in Perms(Len(trig_singles)), pg \in Perms(Len(trig_groups)) :
               LET r == Resolve(Permuted(trig_singles, ps), Permuted(trig_groups, pg), KwLow)
               IN /\ r.kind = reply.kind
                  /\ r.kw = reply.kw
                  /\ r.kind = "single" => ps[r.idx] = reply.idx
                  /\ r.kind = "group" => pg[r.idx] = reply.idx

\* a message in which a short and a longer keyword of different entries
\* occur, the longer one in the second single entry, has been resolved
C7_Witness ==
    /\ Resolved /\ UniqueMax
    /\ reply.kind = "single" /\ reply.idx = 2
    /\ Longest(trig_singles, KwLow)[1] > 0
    /\ MaxG > 0

\* C8 as stated: whenever a grouped and a single entry both match and the
\* longest grouped keyword is at least as long as the longest single one, the
\* grouped entry is delivered (its aggregated message is the first message
\* sent); within a category the first entry with the longest keyword is taken.
C8_GroupedDeliveredAsStated ==
    Resolved =>
      /\ (MaxS > 0 /\ MaxG >= MaxS) =>
            /\ reply.kind = "group"
            /\ reply.tried # <<>>
            /\ reply.tried[1].kind = "forward"
      /\ reply.kind = "single" => reply.idx = FirstWith(trig_singles, KwLow, MaxS)
      /\ reply.kind = "group" => reply.idx = FirstWith(trig_groups, KwLow, MaxG)

\* C8: whenever a grouped and a single entry both match and the longest
\* grouped keyword is at least as long as the longest single one, the grouped
\* entry is selected and no single entry is sent; the first message sent is
\* the aggregated message of the non-empty parts of that grouped entry, and
\* nothing at all is sent when every part is empty; within a category the
\* first entry, in list order, among those with the longest keyword is taken.
C8_GroupedWinsWhenNotShorter ==
    Resolved =>
      /\ (MaxS > 0 /\ MaxG >= MaxS) =>
            /\ reply.kind = "group"
            /\ NoTextTried
            /\ LET texts == Texts(trig_groups[reply.idx].parts)
               IN IF texts = <<>> THEN reply.tried = <<>>
                  ELSE /\ reply.tried # <<>>
                       /\ reply.tried[1] = [kind |-> "forward", texts |-> texts]
      /\ reply.kind = "single" => reply.idx = FirstWith(trig_singles, KwLow, MaxS)
      /\ reply.kind = "group" => reply.idx = FirstWith(trig_groups, KwLow, MaxG)

\* a grouped keyword longer than the single one that occurs; two grouped
\* entries hold a keyword of that length and the first one has been sent
C8_Witness ==
    /\ Resolved
    /\ MaxS > 0 /\ MaxG > MaxS
    /\ Len(trig_groups) = 2
    /\ Longest(trig_groups, KwLow)[1] = MaxG /\ Longest(trig_groups, KwLow)[2] = MaxG
    /\ reply.kind = "group" /\ reply.idx = 1
    /\ Len(reply.tried) = 2

\* C9 as stated: when a single and a grouped entry match with keywords of
\* equal length, the first such single entry is the one delivered.
C9_SingleOnTieAsStated ==
    (Resolved /\ MaxS > 0 /\ MaxG = MaxS) =>
        /\ reply.kind = "single"
        /\ reply.idx = FirstWith(trig_singles, KwLow, MaxS)
        /\ reply.tried = << [kind |-> "text", texts |-> <<trig_singles[reply.idx].body>>] >>

\* C9: when a single and a grouped entry match with keywords of equal length,
\* the grouped entry that comes first among those with that length is
\* selected and no single entry is sent; a single entry is selected only when
\* its keyword is strictly longer than every grouped keyword that occurs.
C9_TieGoesToGrouped ==
    Resolved =>
      /\ (MaxS > 0 /\ MaxG = MaxS) =>
            /\ reply.kind = "group"
            /\ reply.idx = FirstWith(trig_groups, KwLow, MaxG)
            /\ NoTextTried
      /\ reply.kind = "single" => MaxS > MaxG

\* a tie: the longest single and grouped keywords that occur have one length,
\* two grouped entries hold such a keyword, and the message has been answered
C9_Witness ==
    /\ Resolved
    /\ MaxS > 0 /\ MaxG = MaxS
    /\ Len(trig_groups) = 2
    /\ Longest(trig_groups, KwLow)[1] = MaxG /\ Longest(trig_groups, KwLow)[2] = MaxG
    /\ reply.kind = "group"
    /\ reply.tried # <<>>

(***************************************************************************)
(* Properties of the trigger gates and the cooldown                        *)
(***************************************************************************)
\* the message handled last passed both gates, came from an ordinary user and
\* was handled less than the threshold after a message of the same (group,
\* user) pair was accepted
InsideCooldown ==
    /\ handled.permitted /\ handled.addressed /\ ~handled.super
    /\ handled.prevAcc # NoTime
    /\ handled.at - handled.prevAcc < trigger_cooldown_seconds

\* C10: a message of an ordinary user that passes the permission gate and
\* the entry gate less than the cooldown threshold after a message of the same
\* (group, user) pair was accepted produces no outbound message, whatever
\* keyword it contains.
C10_CooldownSilences == InsideCooldown => handled.tried = <<>>

\* such a second message, containing a configured keyword, has been handled
C10_Witness == InsideCooldown /\ handled.hit /\ ~handled.accepted

\* C11 as stated: a message rejected inside the cooldown threshold still
\* advances the recorded timestamp of its (group, user) pair to its own time.
C11_RejectionAdvancesAsStated ==
    (InsideCooldown /\ handled.key \in DOMAIN cooldownRecord) =>
        cooldownRecord[handled.key] = handled.at

\* C11: a message rejected inside the cooldown threshold leaves the recorded
\* timestamp of its (group, user) pair at the time of the last accepted
\* message; the timestamp advances when a message of an ordinary user is
\* accepted, also when that message matches no keyword.
C11_RejectionKeepsTimestamp ==
    /\ InsideCooldown =>
          /\ ~handled.accepted
          /\ handled.key \in DOMAIN cooldownRecord
          /\ cooldownRecord[handled.key] = handled.prevAcc
    /\ (handled.accepted /\ ~handled.super) =>
          /\ handled.key \in DOMAIN cooldownRecord
          /\ cooldownRecord[handled.key] = handled.at

\* a message has been rejected one second or more after the accepted one
C11_Witness ==
    /\ InsideCooldown
    /\ handled.at > handled.prevAcc
    /\ ~handled.accepted

(***************************************************************************)
(* Properties of the switch command                                        *)
(***************************************************************************)
\* the switch command handled last came, in a group, from a sender who is
\* neither owner nor admin nor the super-user
DeniedSender ==
    /\ switched.n > 0
    /\ switched.ev.type = "group"
    /\ switched.ev.role \notin {"owner", "admin"}
    /\ switched.ev.usr # SuperUser

\* C12: a switch command (on or off) sent in a group by a sender who is
\* neither owner nor admin nor the super-user is answered with the denial
\* message and leaves dm_blocked and group_enabled in memory and the durable
\* file as they were.
C12_NonAdminDenied ==
    DeniedSender =>
        /\ switched.said = "denied"
        /\ switched.memAfter = switched.memBefore
        /\ switched.fileAfter = switched.fileBefore
        /\ switched.saved = "none"

\* a member has sent the switch-off command in a group that is enabled
C12_Witness ==
    /\ DeniedSender
    /\ switched.act = "off"
    /\ switched.ev.grp \in switched.memBefore.group_enabled
    /\ switched.said = "denied"

\* the switch command handled last is a switch-off sent by an owner, an admin
\* or the super-user in a non-listed group that was in group_enabled
AdminOff ==
    /\ switched.n > 0
    /\ switched.ev.type = "group"
    /\ switched.ev.role \in {"owner", "admin"} \/ switched.ev.usr = SuperUser
    /\ switched.act = "off"
    /\ switched.ev.grp \notin trigger_groups
    /\ switched.ev.grp \in switched.memBefore.group_enabled
\* the group of that command is in group_enabled neither in memory nor in the
\* file, if the file can be read
GroupGone ==
    /\ switched.ev.grp \notin TRIG_STATE.group_enabled
    /\ stateFile.kind = "json" => switched.ev.grp \notin stateFile.st.group_enabled

C14_NewCycleMentionsOnlyNewJoiners ==
    \A g \in Groups :
        (/\ lastMention[g].any
         /\ lastMention[g].after >= 1
         /\ lastMention[g].by # InlineRun)
            => RangeOf(lastMention[g].users) \subseteq RangeOf(lastMention[g].due)

(***************************************************************************)
(* Properties of the dispatcher loop                                       *)
(***************************************************************************)
\* C15: whatever exceptions the handlers of earlier events raised (Timeout,
\* TransportError, or an event the handler cannot process), every event in
\* the Event Queue is eventually dequeued.
C15_LoopSurvivesExceptions ==
    \A e \in 1..MaxEvents :
        (e \in RangeOf(EVENT_QUEUE)) ~> (e \in RangeOf(dispatched))

\* only handlers have called send_action; the first call timed out, and the
\* handler of a later event has made the second call and got its response
C15_Witness ==
    /\ callTok["timer"] = NoEcho
    /\ outcome[1].kind = "Timeout"
    /\ callTok["disp"] = 2
    /\ outcome[2].kind = "response"
    /\ Len(dispatched) >= 2

(***************************************************************************)
(* Properties of the welcome scheduler: the test command and the timers    *)
(***************************************************************************)
\* run i of schedule_welcome has started and is neither cancelled nor over
Live(i) == task[i].pc \in {"sleep", "emptylog", "greet"}

\* C16: once main has accepted the test phrase of the super-user for a
\* group, no timer task of the group is live or registered, the group's list
\* is exactly the invoking user, and the greeting run is sending: it does not
\* wait for the welcome delay.
C16_TestGreetsWithoutDelay ==
    dpc.pc = "test_run" =>
        /\ dpc.grp \notin DOMAIN timerTasks
        /\ \A i \in Runs \ {InlineRun} : ~(Live(i) /\ task[i].grp = dpc.grp)
        /\ ListOf(dpc.grp) = <<dpc.usr>>
        /\ task[InlineRun].pc # "sleep"

\* C17: when a join handler has left its first send, whatever the outcome of
\* that send, the joining user is in the group's list, a task started by this
\* handler is registered for the group and waits for the delay, and no other
\* task of the group is live.
C17_JoinAlwaysRecorded ==
    lastJoin.any =>
        /\ lastJoin.listed
        /\ lastJoin.fresh
        /\ lastJoin.others = {}

\* C18: whenever the list of a group is not empty and no run of the group is
\* sending a greeting, a run of the group is waiting for its delay: every
\* recorded arrival has a timer that will greet it.
C18_NoArrivalStranded ==
    \A g \in Groups :
        (/\ ListOf(g) # <<>>
         /\ ~\E i \in Runs : task[i].grp = g /\ task[i].pc \in {"emptylog", "greet"})
            => \E i \in Runs : task[i].grp = g /\ task[i].pc = "sleep"

\* the welcome jobs of group g that are live: started, not cancelled, not over
LiveJobs(g) == {i \in Runs : Live(i) /\ task[i].grp = g}

\* C19: each group has at most one live welcome job, counting the timer
\* tasks made by join events and the run made by the test command.
C19_AtMostOneLiveJob == \A g \in Groups : Cardinality(LiveJobs(g)) <= 1

\* a second job has been started for a group whose first job was still live:
\* the first one is cancelled, the second one is live
C19_Witness ==
    \E g \in Groups :
        /\ Cardinality(LiveJobs(g)) = 1
        /\ \E i \in Runs : task[i].grp = g /\ task[i].pc \in {"cancelled_asleep", "cancelled"}

\* C20: a timer task cancelled while it waited for its delay stays cancelled
\* and never becomes the sender of a message of the greeting sequence (a
\* root-level entry, an aggregated entry or the mention message).
C20_CancelledTimerSendsNothing ==
    [][\A i \in Runs \ {InlineRun} :
          task[i].pc = "cancelled_asleep" =>
             /\ task'[i].pc = "cancelled_asleep"
             /\ i \notin senders
             /\ i \notin senders']_vars

\* a timer was cancelled in its delay by a later join or by the test command,
\* and the job that replaced it has sent messages of the greeting
C20_Witness ==
    \E i \in Runs \ {InlineRun} :
        /\ task[i].pc = "cancelled_asleep"
        /\ i \notin senders
        /\ \E j \in Runs : j # i /\ task[j].grp = task[i].grp /\ j \in senders

\* the waiter registered under the frame's token, if any, holds a result
\* after the step, and nothing else of the Correlation Channel changed
WaiterResolved(f) ==
    /\ DOMAIN PENDING_ACTIONS' = DOMAIN PENDING_ACTIONS
    /\ \A t \in DOMAIN PENDING_ACTIONS :
          IF t = f.echo THEN PENDING_ACTIONS'[t].done
                        ELSE PENDING_ACTIONS'[t] = PENDING_ACTIONS[t]

\* C21: every inbound frame is routed and leaves the Frame Router running:
\* an unparseable frame changes nothing; a frame with a token and a status
\* resolves the waiter of that token, if there is one, and is never put on
\* the Event Queue; every other frame is appended to the Event Queue.
C21_EveryFrameRouted ==
    [][\A f \in Frames \cup {Malformed} :
          ReaderRecv(f) =>
             /\ reader' = "running"
             /\ f = Malformed => UNCHANGED <<PENDING_ACTIONS, EVENT_QUEUE>>
             /\ IsResponse(f) => WaiterResolved(f) /\ UNCHANGED EVENT_QUEUE
             /\ (f # Malformed /\ ~IsResponse(f)) =>
                   /\ Len(EVENT_QUEUE') = Len(EVENT_QUEUE) + 1
                   /\ SubSeq(EVENT_QUEUE', 1, Len(EVENT_QUEUE)) = EVENT_QUEUE
                   /\ UNCHANGED PENDING_ACTIONS]_vars

\* the trigger engine would answer the event as things stand: the sender is
\* permitted and addressed the bot, no cooldown rejects it, a keyword hits
WouldReply(ev) ==
    /\ trigger_enabled
    /\ IF ev.type = "group" THEN is_group_trigger_allowed(ev.grp)
                            ELSE is_private_trigger_allowed(ev.usr)
    /\ ev.at_me \/ contains_any_name(ev.text, names)
    /\ ev.usr = SuperUser \/ ~InCooldown(clock, LastOf(<<ev.grp, ev.usr>>))
    /\ TriggerReply(ev.text, ev.type = "private", 0).kind # "none"

\* C22: a step in which the dispatcher handles a message that matches the
\* switch pattern is a step of the switch handler alone: the trigger engine
\* does not run, so no keyword reply is sent and no cooldown record is
\* created or changed.
C22_SwitchNeverFallsThrough ==
    [][\A ev \in SwitchChatEvents, res \in SaveResults, n \in SendFailures :
          ChatMessage(ev, res, n) =>
              /\ UNCHANGED <<cooldownRecord, acceptedAt, handled, reply>>
              /\ switched'.n = switched.n + 1
              /\ switched'.ev = ev]_vars

\* a switch command was handled that the trigger engine would have answered,
\* from a sender who already has a cooldown record
C22_Witness ==
    /\ switched.n > 0
    /\ switched.ev.type = "group"
    /\ WouldReply(switched.ev)
    /\ <<switched.ev.grp, switched.ev.usr>> \in DOMAIN cooldownRecord
    /\ handled.hit

\* the switch command handled last is a switch-off sent in a group of the
\* static allow list
ListedOff ==
    /\ switched.n > 0
    /\ switched.ev.type = "group"
    /\ switched.act = "off"
    /\ switched.ev.grp \in trigger_groups

\* the groups outside the static allow list that the switch command handled
\* last has put into group_enabled
NewlyEnabled ==
    (switched.memAfter.group_enabled \ switched.memBefore.group_enabled) \ trigger_groups

\* C23: a switch-off in a group of the static allow list is refused, changes
\* neither the state in memory nor the file, and triggers stay allowed in
\* that group; a switch command puts a non-listed group into group_enabled
\* only if it is a switch-on sent in that group by an owner, an admin or the
\* super-user while trigger_allow_nonlisted_groups is set.
C23_ListedStaysOnAndNonListedNeedsFlag ==
    /\ ListedOff =>
          /\ switched.said \in {"listed_not_closable", "denied"}
          /\ switched.memAfter = switched.memBefore
          /\ switched.fileAfter = switched.fileBefore
          /\ trigger_enabled => is_group_trigger_allowed(switched.ev.grp)
    /\ switched.n > 0 =>
          \A g \in NewlyEnabled :
              /\ switched.ev.type = "group"
              /\ switched.ev.grp = g
              /\ switched.act = "on"
              /\ switched.ev.role \in {"owner", "admin"} \/ switched.ev.usr = SuperUser
              /\ trigger_allow_nonlisted_groups

\* an admin's switch-off in a listed group that group_enabled also holds was
\* refused, in a process whose flag for non-listed groups is not set
C23_Witness ==
    /\ ListedOff
    /\ switched.ev.role = "admin"
    /\ switched.ev.grp \in switched.memBefore.group_enabled
    /\ switched.said = "listed_not_closable"
    /\ ~trigger_allow_nonlisted_groups

\* the switch command handled last changed the toggle state and its
\* confirmation was sent
ConfirmedChange ==
    /\ switched.n > 0
    /\ switched.memAfter # switched.memBefore
    /\ switched.said \in {"dm_closed", "dm_opened", "closed", "opened"}

\* C24: when the confirmation of a switch command that changed the toggle
\* state is sent, the durable file has been written and holds exactly the
\* toggle state in memory.
C24_SavedBeforeConfirmed ==
    ConfirmedChange =>
        /\ switched.saved = "ok"
        /\ switched.fileAfter = FileOf(switched.memAfter)

\* a state-changing command was confirmed when the file, before the command,
\* was missing, damaged or behind the state in memory
C24_Witness ==
    /\ ConfirmedChange
    /\ switched.fileBefore # FileOf(switched.memBefore)
    /\ switched.fileAfter # switched.fileBefore

\* C25: no failure to read or to write trigger_state.json ends the process,
\* and each such failure leaves the toggle state in memory empty: a start
\* that finds the file absent or unreadable, and a switch command whose save
\* raises, end with dm_blocked and group_enabled both empty.
C25_PersistenceFailureFallsBackToEmpty ==
    /\ [](/\ proc = "up"
          /\ switched.saved = "fail" => switched.memAfter = EmptyState)
    /\ [][\A res \in SaveResults :
             (stateFile.kind # "json" /\ Restart(res)) => TRIG_STATE' = EmptyState]_vars

\* C26: the settings and entries used by one greeting, and those used by
\* one trigger reply, all come from one load of the content.
C26_OneSnapshotPerUse ==
    /\ Cardinality(used) <= 1
    /\ Cardinality(replyUsed) <= 1

RECURSIVE FirstId(_)
\* the first self identifier that a sequence of dequeued events carries
FirstId(q) ==
    IF q = <<>> THEN NoId
    ELSE IF Head(q) # "" THEN Head(q) ELSE FirstId(Tail(q))

\* C27: the agent's own identifier is the one of the first dequeued event
\* that carried one, and once set it never changes, whatever later events
\* carry and whatever connection attempts and content loads come in between.
C27_SelfIdSetOnce ==
    /\ [](self_id = FirstId(seen))
    /\ [][self_id # NoId => self_id' = self_id]_vars

\* the identifier was taken from an event that followed one without an
\* identifier, a later event carried another one, and content was reloaded
C27_Witness ==
    /\ self_id = "b1"
    /\ \E i \in 1..Len(seen) : seen[i] = "b2"
    /\ nLoads > 1
    /\ settings = nLoads

=============================================================================
